---- MODULE Spec2Model ----
(***************************************************************************)
(* Model of pba/helper_utils.py: eval_child_model, step_lr, get_lr and     *)
(* run_epoch_training, run against an execution engine (session), a model  *)
(* object and a data loader that are external to the file.                 *)
(*                                                                         *)
(* Conventions.  Python values that can be of several types are records    *)
(* with a field `kind`.  A float is [kind |-> "float", by, args]: `by`     *)
(* names how it was computed ("value": an exact rate in units of 1e-4,     *)
(* "div": the quotient args[1] / args[2], "cosine_lr": the result of the   *)
(* imported autoaugment.helper_utils.cosine_lr on args, which is not part  *)
(* of this file and is kept uninterpreted).  Array positions are 1-based   *)
(* here and 0-based in Python; only equality of positions is ever used.    *)
(***************************************************************************)
EXTENDS Integers, Sequences, FiniteSets, TLC

\* ------------------------------------------------------------------ bounds
MaxN == 3
MaxBatch == 2
MaxTrain == 2
MaxInitStep == 1
MaxCalls == 2
MaxEpoch == 1

\* ------------------------------------------------------------------ values
NoIteration == -1

None == [kind |-> "None"]

Float(by, args) == [kind |-> "float", by |-> by, args |-> args]

Classes == {1, 2}

OneHot(c) == [k \in Classes |-> IF k = c THEN 1 ELSE 0]

OneHots == {OneHot(c) : c \in Classes}

Scores == [Classes -> 0..1]

SeqsOfLen(S, n) == [1..n -> S]

Min(a, b) == IF a < b THEN a ELSE b

\* ------------------------------------------------------------------ Python and numpy primitives
\* `sub in s` on strings
In(sub, s) == \E k \in 0..(Len(s) - Len(sub)) : SubSeq(s, k + 1, k + Len(sub)) = sub

\* int(a / b) for a >= 0, b >= 1 (true division, then truncation)
IntDiv(a, b) == a \div b

\* s[lo:hi] for 0 <= lo <= hi: the slice is clipped to the length of s
Slice(s, lo, hi) == SubSeq(s, Min(lo, Len(s)) + 1, Min(hi, Len(s)))

\* variant of ArgMax: the last position holding the maximum
ArgMax_Last(v) ==
    CHOOSE k \in DOMAIN v :
        /\ \A j \in DOMAIN v : v[j] <= v[k]
        /\ \A j \in DOMAIN v : j > k => v[j] < v[k]

\* np.argmax of one row: the first position holding the maximum
ArgMax(v) ==
    CHOOSE k \in DOMAIN v :
        /\ \A j \in DOMAIN v : v[j] <= v[k]
        /\ \A j \in DOMAIN v : j < k => v[j] < v[k]

\* np.sum(np.equal(np.argmax(labels, 1), np.argmax(preds, 1)))
Matches(lbls, preds) ==
    Cardinality({j \in 1..Len(preds) : ArgMax(lbls[j]) = ArgMax(preds[j])})

\* what the engine's predictions are worth: the number of rows whose largest
\* score, the first one on a tie, stands at the class of the one-hot label
Agreeing(lbls, preds) ==
    Cardinality({j \in 1..Len(preds) :
        \E c \in Classes :
            /\ lbls[j][c] = 1
            /\ \A d \in Classes : (d < c => preds[j][d] < preds[j][c])
                                   /\ (d > c => preds[j][d] <= preds[j][c])})

\* ------------------------------------------------------------------ learning-rate schedule
\* the closure get_lr(epoch) defined inside step_lr, applied to an epoch
StepLrInner(learning_rate, epoch) ==
    IF epoch < 80 THEN Float("value", <<learning_rate>>)
    ELSE IF epoch < 120 THEN Float("value", <<learning_rate \div 10>>)
    ELSE Float("value", <<learning_rate \div 100>>)

\* step_lr(learning_rate, epoch) returns the closure itself, not its value
step_lr(learning_rate, epoch) ==
    [kind |-> "function", by |-> "step_lr.get_lr", args |-> <<learning_rate>>]

cosine_lr(learning_rate, epoch, iteration_, batches_per_epoch, total_epochs) ==
    Float("cosine_lr",
          <<learning_rate, epoch, iteration_, batches_per_epoch, total_epochs>>)

\* variant of IsStepPolicy: either substring selects the step policy
IsStepPolicy_Or(hp) == In("svhn", hp.dataset) \/ In("wrn", hp.model_name)

IsStepPolicy(hp) == In("svhn", hp.dataset) /\ In("wrn", hp.model_name)

IsCosinePolicy(hp) ==
    In("cifar", hp.dataset)
        \/ (In("svhn", hp.dataset) /\ In("shake_shake", hp.model_name))

\* get_lr(curr_epoch, hparams, iteration): [raised, lr, warn]
get_lr(epoch, hp, iteration_) ==
    IF iteration_ = NoIteration
    THEN [raised |-> "AssertionError", lr |-> None, warn |-> FALSE]
    ELSE LET batches_per_epoch == IntDiv(hp.train_size, hp.batch_size)
         IN IF IsStepPolicy(hp)
            THEN [raised |-> "", lr |-> step_lr(hp.lr, epoch), warn |-> FALSE]
            ELSE IF IsCosinePolicy(hp)
            THEN [raised |-> "",
                  lr |-> cosine_lr(hp.lr, epoch, iteration_, batches_per_epoch,
                                   hp.num_epochs),
                  warn |-> FALSE]
            ELSE [raised |-> "",
                  lr |-> cosine_lr(hp.lr, epoch, iteration_, batches_per_epoch,
                                   hp.num_epochs),
                  warn |-> TRUE]

\* ------------------------------------------------------------------ inputs
Modes == {"val", "test", "train", "validation"}

Image(set, j) == <<set, j>>

ImageSeq(set, m) == [j \in 1..m |-> Image(set, j)]

LabelSeq(set, n) ==
    [j \in 1..n |-> OneHot(IF (j + (IF set = "val" THEN 0 ELSE 1)) % 2 = 0 THEN 1 ELSE 2)]

\* a data loader holding nv validation and nt test images; `short` names the
\* set, if any, that has one label fewer than images
DataLoader(nv, nt, short) ==
    [val_images |-> ImageSeq("val", nv),
     val_labels |-> LabelSeq("val", IF short = "val" THEN nv - 1 ELSE nv),
     test_images |-> ImageSeq("test", nt),
     test_labels |-> LabelSeq("test", IF short = "test" THEN nt - 1 ELSE nt)]

\* the two held-out sets differ in size by at most one image
DataLoaders ==
    {DataLoader(p[1], p[2], "") :
        p \in {q \in (0..MaxN) \X (0..MaxN) : q[2] = q[1] \/ q[2] = q[1] + 1}}
        \cup {DataLoader(MaxN, MaxN, short) : short \in {"val", "test"}}

HParamsTrain ==
    [train_size : 0..MaxTrain, batch_size : 1..MaxBatch,
     dataset : {"svhn", "imagenet"}, model_name : {"wrn_28_10"},
     lr : {1000}, num_epochs : {200}]

HParamsLr ==
    [train_size : {0, 5}, batch_size : {2},
     dataset : {"svhn", "svhn-full", "cifar10", "reduced_cifar10", "imagenet",
                "cifar10_svhn"},
     model_name : {"wrn_28_10", "wrn_40_2", "shake_shake_32", "resnet",
                   "shake_shake_wrn"},
     lr : {1000, 500}, num_epochs : {200}]

Epochs == {0, 40, 79, 80, 100, 119, 120, 150}

Iterations == {NoIteration, 0, 1, 7}

\* ------------------------------------------------------------------ state
VARIABLES
    hparams,          \* model.hparams
    batch_size,       \* model.batch_size
    global_step,      \* the engine's global step variable
    lr_rate_ph,       \* the value last loaded into model.lr_rate_ph
    pc,               \* "idle", a position inside a call, "returned" or "raised"
    func,             \* the entry point of the current (or last) call
    err,              \* the exception the call raised, "" if none
    site,             \* the source position that raised it
    result,           \* the value the call returned
    warned,           \* logging.warn was emitted by the call
    mode,             \* eval_child_model: argument
    images,           \* eval_child_model: local
    labels,           \* eval_child_model: local
    eval_batches,     \* eval_child_model: local
    i,                \* eval_child_model: loop variable
    curr_epoch,       \* run_epoch_training / get_lr: argument
    iteration,        \* get_lr: argument
    steps_per_epoch,  \* run_epoch_training: local
    curr_step,        \* run_epoch_training: local
    curr_lr,          \* run_epoch_training: local
    step,             \* run_epoch_training: loop variable, rebound by the fetch
    range_i,          \* run_epoch_training: values drawn from range(steps_per_epoch)
    train_labels,     \* run_epoch_training: local
    correct,          \* local of both loops
    count,            \* local of both loops
    events,           \* calls made by the current call on its collaborators, in order
    engine_errors,    \* exceptions the engine raised during the current call
    calls,            \* calls started so far
    step0,            \* global step at construction
    all_completed,    \* every call finished so far has returned
    clean_entry,      \* all_completed as it was when the current call started
    entry_step,       \* the global step when the current call started
    seen,             \* predictions the engine returned to the current call
    hits              \* those of them whose arg-max is the arg-max of their label

persistent == <<hparams, batch_size, step0>>

engine == <<global_step, lr_rate_ph>>

control == <<pc, func, err, site, result, warned>>

eval_locals == <<mode, images, labels, eval_batches, i>>

train_locals ==
    <<curr_epoch, steps_per_epoch, curr_step, curr_lr, step, range_i, train_labels>>

history == <<calls, all_completed, clean_entry, entry_step>>

tally == <<seen, hits>>

vars ==
    <<hparams, batch_size, global_step, lr_rate_ph, pc, func, err, site, result,
      warned, mode, images, labels, eval_batches, i, curr_epoch, iteration,
      steps_per_epoch, curr_step, curr_lr, step, range_i, train_labels, correct,
      count, events, engine_errors, calls, step0, all_completed, clean_entry,
      entry_step, seen, hits>>

Event(op, arg) == [op |-> op, arg |-> arg]

Count(op) == Cardinality({k \in 1..Len(events) : events[k].op = op})

Callable == pc \in {"idle", "returned", "raised"} /\ calls < MaxCalls

\* the frame of a call that has not started
NoFrame ==
    /\ pc = "idle" /\ func = "" /\ err = "" /\ site = "" /\ result = None
    /\ warned = FALSE
    /\ mode = "" /\ images = <<>> /\ labels = <<>> /\ eval_batches = 0 /\ i = 0
    /\ curr_epoch = 0 /\ iteration = NoIteration /\ steps_per_epoch = 0
    /\ curr_step = 0 /\ curr_lr = None /\ step = 0 /\ range_i = 0
    /\ train_labels = <<>> /\ correct = 0 /\ count = 0
    /\ events = <<>> /\ engine_errors = 0
    /\ calls = 0 /\ all_completed = TRUE /\ clean_entry = TRUE
    /\ entry_step = 0 /\ seen = 0 /\ hits = 0

Init ==
    /\ hparams \in HParamsTrain
    /\ batch_size \in 1..MaxBatch
    /\ global_step \in 0..MaxInitStep
    /\ step0 = global_step
    /\ lr_rate_ph = None
    /\ NoFrame

InitLr ==
    /\ hparams \in HParamsLr
    /\ batch_size = 1
    /\ global_step = 0
    /\ step0 = 0
    /\ lr_rate_ph = None
    /\ NoFrame

\* ------------------------------------------------------------------ call frames
\* a call starts with fresh locals; only the engine and the model persist
Enter(f) ==
    /\ Callable
    /\ func' = f
    /\ calls' = calls + 1
    /\ clean_entry' = all_completed
    /\ entry_step' = global_step
    /\ warned' = FALSE

\* variant of Raise: the exception is swallowed and the statement is tried again
Raise_Retry(e, s) ==
    /\ pc' = pc /\ err' = "" /\ site' = "" /\ result' = None
    /\ UNCHANGED all_completed

\* an exception leaves the call: nothing is returned
Raise(e, s) ==
    /\ pc' = "raised" /\ err' = e /\ site' = s /\ result' = None
    /\ all_completed' = FALSE

Return(v) ==
    /\ pc' = "returned" /\ err' = "" /\ site' = "" /\ result' = v
    /\ UNCHANGED all_completed

Running(p) ==
    /\ pc' = p /\ err' = "" /\ site' = "" /\ result' = None
    /\ UNCHANGED all_completed

\* ------------------------------------------------------------------ eval_child_model
\* variant of SelectData: the mode is matched by substring
SelectData_Substring(m, dl) ==
    IF In("val", m)
    THEN [raised |-> "", images |-> dl.val_images, labels |-> dl.val_labels]
    ELSE IF In("test", m)
    THEN [raised |-> "", images |-> dl.test_images, labels |-> dl.test_labels]
    ELSE [raised |-> "ValueError", images |-> <<>>, labels |-> <<>>]

\* lines 43-50: the arrays `mode` selects
SelectData(m, dl) ==
    IF m = "val"
    THEN [raised |-> "", images |-> dl.val_images, labels |-> dl.val_labels]
    ELSE IF m = "test"
    THEN [raised |-> "", images |-> dl.test_images, labels |-> dl.test_labels]
    ELSE [raised |-> "ValueError", images |-> <<>>, labels |-> <<>>]

\* variant of EvalBatches: the short last batch is not counted
EvalBatches_Floor(n, b) == IntDiv(n, b)

\* lines 53-55
EvalBatches(n, b) == IntDiv(n, b) + (IF n % b # 0 THEN 1 ELSE 0)

\* lines 59-60: the slice fed in pass k (0-based)
EvalSlice(s, k, b) == Slice(s, k * b, (k + 1) * b)

\* lines 43-57: up to the loop
EvalCall(m, dl) ==
    /\ Enter("eval_child_model")
    /\ LET sel == SelectData(m, dl) IN
        /\ mode' = m
        /\ images' = sel.images
        /\ labels' = sel.labels
        /\ IF sel.raised # ""
           THEN Raise(sel.raised, "50") /\ eval_batches' = 0
           ELSE IF Len(sel.images) # Len(sel.labels)
           THEN Raise("AssertionError", "51") /\ eval_batches' = 0
           ELSE /\ Running("eval_loop")
                /\ eval_batches' = EvalBatches(Len(sel.images), batch_size)
    /\ i' = 0 /\ correct' = 0 /\ count' = 0 /\ events' = <<>>
    /\ engine_errors' = 0 /\ seen' = 0 /\ hits' = 0
    /\ curr_epoch' = 0 /\ iteration' = NoIteration /\ steps_per_epoch' = 0
    /\ curr_step' = 0 /\ curr_lr' = None /\ step' = 0 /\ range_i' = 0
    /\ train_labels' = <<>>
    /\ UNCHANGED <<persistent, engine>>

\* lines 58-69: one pass of the loop, the engine returning one prediction per image
EvalBatch ==
    /\ pc = "eval_loop" /\ func = "eval_child_model"
    /\ i < eval_batches
    /\ LET eval_images == EvalSlice(images, i, batch_size)
           eval_labels == EvalSlice(labels, i, batch_size)
       IN \E preds \in SeqsOfLen(Scores, Len(eval_images)) :
            /\ events' = Append(events,
                    Event("run", [fetches |-> <<"predictions">>,
                                  images |-> eval_images, labels |-> eval_labels]))
            /\ correct' = correct + Matches(eval_labels, preds)
            /\ count' = count + Len(preds)
            /\ seen' = seen + Len(preds)
            /\ hits' = hits + Agreeing(eval_labels, preds)
    /\ i' = i + 1
    /\ UNCHANGED <<persistent, engine, control, mode, images, labels, eval_batches,
                   train_locals, iteration, engine_errors, history>>

\* lines 61-66: session.run raises
EvalBatchFail ==
    /\ pc = "eval_loop" /\ func = "eval_child_model"
    /\ i < eval_batches
    /\ engine_errors' = engine_errors + 1
    /\ Raise("EngineError", "61")
    /\ UNCHANGED <<persistent, engine, func, warned, eval_locals, train_locals,
                   iteration, correct, count, events, calls, clean_entry, entry_step, tally>>

\* lines 70-72
EvalReturn ==
    /\ pc = "eval_loop" /\ func = "eval_child_model"
    /\ i >= eval_batches
    /\ IF count # Len(images) THEN Raise("AssertionError", "70")
       ELSE IF count = 0 THEN Raise("ZeroDivisionError", "72")
       ELSE Return(Float("div", <<correct, count>>))
    /\ UNCHANGED <<persistent, engine, func, warned, eval_locals, train_locals,
                   iteration, correct, count, events, engine_errors, calls,
                   clean_entry, entry_step, tally>>

\* ------------------------------------------------------------------ run_epoch_training
\* variant of Mod: the operands are exchanged
Mod_Swapped(a, b, numpy) ==
    IF a # 0 THEN [raised |-> "", value |-> b % a]
    ELSE [raised |-> "", value |-> 0]

\* `a % b` on the fetched global step: b = 0 raises for a Python int and yields 0
\* (with a warning) for a numpy integer scalar
Mod(a, b, numpy) ==
    IF b # 0 THEN [raised |-> "", value |-> a % b]
    ELSE IF numpy THEN [raised |-> "", value |-> 0]
    ELSE [raised |-> "ZeroDivisionError", value |-> 0]

\* line 113
StepsPerEpoch(hp) == IntDiv(hp.train_size, hp.batch_size)

\* variant of LrIteration: the loop value itself
LrIteration_Same(step_) == step_

\* line 125: the schedule position of loop value step_
LrIteration(step_) == step_ + 1

\* variant of RangeMore: a while loop on the rebound variable
RangeMore_Rebound(drawn, last, n) == last < n

\* variant of RangeMore: one pass too many
RangeMore_Inclusive(drawn, last, n) == drawn <= n

\* line 124: the for statement draws the next value of range(n)
RangeMore(drawn, last, n) == drawn < n

\* lines 113-123: up to the loop
TrainCall(e, numpy) ==
    /\ Enter("run_epoch_training")
    /\ LET spe == StepsPerEpoch(hparams)
           rem == Mod(global_step, spe, numpy)
           lr0 == get_lr(e, hparams, 0)
       IN /\ steps_per_epoch' = spe
          /\ curr_step' = global_step
          /\ curr_epoch' = e
          /\ IF rem.raised # ""
             THEN /\ Raise(rem.raised, "116")
                  /\ curr_lr' = None
                  /\ events' = <<Event("run", [fetches |-> <<"global_step">>])>>
             ELSE IF rem.value # 0
             THEN /\ Raise("AssertionError", "116")
                  /\ curr_lr' = None
                  /\ events' = <<Event("run", [fetches |-> <<"global_step">>])>>
             ELSE /\ Running("train_loop")
                  /\ curr_lr' = lr0.lr
                  /\ events' = <<Event("run", [fetches |-> <<"global_step">>]),
                                 Event("get_lr", [iteration |-> 0, lr |-> lr0.lr])>>
    /\ step' = 0 /\ range_i' = 0 /\ train_labels' = <<>>
    /\ correct' = 0 /\ count' = 0 /\ engine_errors' = 0 /\ seen' = 0 /\ hits' = 0
    /\ mode' = "" /\ images' = <<>> /\ labels' = <<>> /\ eval_batches' = 0 /\ i' = 0
    /\ iteration' = NoIteration
    /\ UNCHANGED <<persistent, engine>>

\* line 115: session.run raises
TrainCallFail(e) ==
    /\ Enter("run_epoch_training")
    /\ steps_per_epoch' = StepsPerEpoch(hparams)
    /\ curr_epoch' = e
    /\ curr_step' = 0 /\ curr_lr' = None
    /\ engine_errors' = 1 /\ seen' = 0 /\ hits' = 0
    /\ Raise("EngineError", "115")
    /\ events' = <<>>
    /\ step' = 0 /\ range_i' = 0 /\ train_labels' = <<>>
    /\ correct' = 0 /\ count' = 0
    /\ mode' = "" /\ images' = <<>> /\ labels' = <<>> /\ eval_batches' = 0 /\ i' = 0
    /\ iteration' = NoIteration
    /\ UNCHANGED <<persistent, engine>>

\* lines 124-129: draw the next step, compute its learning rate and load it
TrainLoadLr ==
    /\ pc = "train_loop" /\ func = "run_epoch_training"
    /\ RangeMore(range_i, step, steps_per_epoch)
    /\ LET r == get_lr(curr_epoch, hparams, LrIteration(range_i)) IN
        /\ step' = range_i
        /\ range_i' = range_i + 1
        /\ curr_lr' = r.lr
        /\ lr_rate_ph' = r.lr
        /\ warned' = (warned \/ r.warn)
        /\ events' = events \o
                <<Event("get_lr", [iteration |-> LrIteration(range_i), lr |-> r.lr]),
                  Event("load", [value |-> r.lr])>>
    /\ pc' = "train_batch"
    /\ UNCHANGED <<persistent, global_step, func, err, site, result, eval_locals,
                   curr_epoch, iteration, steps_per_epoch, curr_step, train_labels,
                   correct, count, engine_errors, history, tally>>

\* line 127: the load raises
TrainLoadLrFail ==
    /\ pc = "train_loop" /\ func = "run_epoch_training"
    /\ RangeMore(range_i, step, steps_per_epoch)
    /\ LET r == get_lr(curr_epoch, hparams, LrIteration(range_i)) IN
        /\ step' = range_i
        /\ range_i' = range_i + 1
        /\ curr_lr' = r.lr
        /\ warned' = (warned \/ r.warn)
        /\ events' = Append(events,
                Event("get_lr", [iteration |-> LrIteration(range_i), lr |-> r.lr]))
    /\ engine_errors' = engine_errors + 1
    /\ Raise("EngineError", "127")
    /\ UNCHANGED <<persistent, engine, func, eval_locals, curr_epoch, iteration,
                   steps_per_epoch, curr_step, train_labels, correct, count,
                   calls, clean_entry, entry_step, tally>>

\* line 131
TrainNextBatch ==
    /\ pc = "train_batch" /\ func = "run_epoch_training"
    /\ \E lbls \in SeqsOfLen(OneHots, hparams.batch_size) : train_labels' = lbls
    /\ events' = Append(events, Event("next_batch", [epoch |-> curr_epoch]))
    /\ pc' = "train_run"
    /\ UNCHANGED <<persistent, engine, func, err, site, result, warned, eval_locals,
                   curr_epoch, iteration, steps_per_epoch, curr_step, curr_lr, step,
                   range_i, correct, count, engine_errors, history, tally>>

\* lines 132-141: the update runs; the fetched global step rebinds `step`
TrainRun ==
    /\ pc = "train_run" /\ func = "run_epoch_training"
    /\ global_step' = global_step + 1
    /\ \E fetched \in {global_step, global_step + 1} : step' = fetched
    /\ \E preds \in SeqsOfLen(Scores, Len(train_labels)) :
        /\ correct' = correct + Matches(train_labels, preds)
        /\ count' = count + Len(preds)
        /\ seen' = seen + Len(preds)
        /\ hits' = hits + Agreeing(train_labels, preds)
    /\ events' = Append(events,
            Event("run", [fetches |-> <<"train_op", "global_step", "predictions">>]))
    /\ pc' = "train_loop"
    /\ UNCHANGED <<persistent, lr_rate_ph, func, err, site, result, warned,
                   eval_locals, curr_epoch, iteration, steps_per_epoch, curr_step,
                   curr_lr, range_i, train_labels, engine_errors, history>>

\* lines 132-137: session.run raises, the update is not applied
TrainRunFail ==
    /\ pc = "train_run" /\ func = "run_epoch_training"
    /\ engine_errors' = engine_errors + 1
    /\ Raise("EngineError", "132")
    /\ UNCHANGED <<persistent, engine, func, warned, eval_locals, train_locals,
                   iteration, correct, count, events, calls, clean_entry, entry_step, tally>>

\* lines 142-145
TrainReturn ==
    /\ pc = "train_loop" /\ func = "run_epoch_training"
    /\ ~RangeMore(range_i, step, steps_per_epoch)
    /\ IF count = 0 THEN Raise("ZeroDivisionError", "142")
       ELSE Return(Float("div", <<correct, count>>))
    /\ UNCHANGED <<persistent, engine, func, warned, eval_locals, train_locals,
                   iteration, correct, count, events, engine_errors, calls,
                   clean_entry, entry_step, tally>>

\* ------------------------------------------------------------------ get_lr as an entry point
\* lines 84-98
GetLrCall(e, it) ==
    /\ pc = "idle"
    /\ LET r == get_lr(e, hparams, it) IN
        /\ IF r.raised # ""
           THEN pc' = "raised" /\ err' = r.raised /\ site' = "86" /\ result' = None
           ELSE pc' = "returned" /\ err' = "" /\ site' = "" /\ result' = r.lr
        /\ warned' = r.warn
    /\ func' = "get_lr"
    /\ curr_epoch' = e
    /\ iteration' = it
    /\ calls' = calls + 1
    /\ UNCHANGED <<persistent, engine, eval_locals, steps_per_epoch, curr_step,
                   curr_lr, step, range_i, train_labels, correct, count, events,
                   engine_errors, all_completed, clean_entry, entry_step, tally>>

\* ------------------------------------------------------------------ specifications
Next ==
    \/ \E m \in Modes, dl \in DataLoaders : EvalCall(m, dl)
    \/ EvalBatch
    \/ EvalBatchFail
    \/ EvalReturn
    \/ \E e \in 0..MaxEpoch, numpy \in BOOLEAN : TrainCall(e, numpy)
    \/ \E e \in 0..MaxEpoch : TrainCallFail(e)
    \/ TrainLoadLr
    \/ TrainLoadLrFail
    \/ TrainNextBatch
    \/ TrainRun
    \/ TrainRunFail
    \/ TrainReturn

Spec == Init /\ [][Next]_vars

NextLr == \E e \in Epochs, it \in Iterations : GetLrCall(e, it)

SpecLr == InitLr /\ [][NextLr]_vars

\* ------------------------------------------------------------------ vocabulary of the properties
InEval == func = "eval_child_model"

InTrain == func = "run_epoch_training"

Finished == pc \in {"returned", "raised"}

\* steps per epoch, from the hyper-parameters
Steps == hparams.train_size \div hparams.batch_size

IsMultiple(a, b) == \E q \in 0..a : a = q * b

\* the least number of batches of b that cover n
Ceil(n, b) == CHOOSE q \in 0..n : q * b >= n /\ (q = 0 \/ (q - 1) * b < n)

IsRun(ev, fetches) == ev.op = "run" /\ ev.arg.fetches = fetches

ReadStep == <<"global_step">>

Predict == <<"predictions">>

Update == <<"train_op", "global_step", "predictions">>

Runs(fetches) == Cardinality({k \in 1..Len(events) : IsRun(events[k], fetches)})

ValidEval == InEval /\ mode \in {"val", "test"} /\ Len(images) = Len(labels)

IsOne(x) == x.kind = "float" /\ x.by = "div" /\ x.args[1] = x.args[2] /\ x.args[2] > 0

InUnit(x) ==
    x.kind = "float" /\ x.by = "div" /\ x.args[2] > 0
        /\ 0 <= x.args[1] /\ x.args[1] <= x.args[2]

\* ------------------------------------------------------------------ C1
\* C1: for every mode other than "val" and "test" eval_child_model raises
\* ValueError, and nothing else raises it; no session.run was made, no prediction
\* was received, the global step is untouched and nothing is returned.
C1_InvalidModeRaises ==
    /\ (InEval /\ mode \notin {"val", "test"}) =>
            /\ pc = "raised" /\ err = "ValueError" /\ result = None
            /\ events = <<>> /\ seen = 0 /\ global_step = entry_step
    /\ (InEval /\ err = "ValueError") => mode \notin {"val", "test"}

C1_Witness == InEval /\ mode = "validation" /\ err = "ValueError" /\ pc = "raised"

\* ------------------------------------------------------------------ C2
\* C2 as stated: for mode "val" or "test", any number N of images with as many
\* labels and any batch size, a call the engine does not fail returns correct/count,
\* a value in [0, 1], which is 1 when every prediction agrees with its label.
C2_AnyN ==
    (ValidEval /\ Finished /\ engine_errors = 0) =>
        /\ pc = "returned"
        /\ InUnit(result)
        /\ result = Float("div", <<hits, seen>>)
        /\ (hits = seen => IsOne(result))

\* C2 amended: the same for N >= 1; with N = 0 no batch is run and the final
\* division raises ZeroDivisionError.
C2_NonEmpty ==
    (ValidEval /\ Finished /\ engine_errors = 0) =>
        IF Len(images) >= 1
        THEN /\ pc = "returned"
             /\ InUnit(result)
             /\ result = Float("div", <<hits, seen>>)
             /\ (hits = seen => IsOne(result))
        ELSE pc = "raised" /\ err = "ZeroDivisionError" /\ site = "72"
                /\ events = <<>>

C2_Witness ==
    /\ ValidEval /\ pc = "returned" /\ Len(images) = 3 /\ batch_size = 2
    /\ hits = seen /\ IsOne(result)

\* ------------------------------------------------------------------ C3
\* C3: pass k (1-based) of the evaluation feeds the images and labels at
\* positions (k-1)*B+1 .. min(k*B, N) and nothing else; every batch has B
\* elements but the last, which has N mod B when that is not 0; a call the engine
\* does not fail makes exactly ceil(N/B) calls of session.run, counts N
\* predictions and never fails the assertion of line 70.
C3_Batching ==
    ValidEval =>
        LET N == Len(images)
            B == batch_size
        IN /\ Len(events) = i
           /\ \A k \in 1..Len(events) :
                LET fed == events[k].arg
                    size == IF k * B <= N THEN B ELSE N - (k - 1) * B
                IN /\ IsRun(events[k], Predict)
                   /\ k <= Ceil(N, B)
                   /\ size = (IF k < Ceil(N, B) \/ N % B = 0 THEN B ELSE N % B)
                   /\ Len(fed.images) = size /\ Len(fed.labels) = size
                   /\ \A j \in 1..size :
                        /\ fed.images[j] = images[(k - 1) * B + j]
                        /\ fed.labels[j] = labels[(k - 1) * B + j]
           /\ (Finished /\ engine_errors = 0) =>
                /\ Len(events) = Ceil(N, B)
                /\ count = N
                /\ seen = N
                /\ ~(err = "AssertionError")

C3_Witness ==
    /\ ValidEval /\ pc = "returned" /\ Len(images) = 3 /\ batch_size = 2
    /\ Len(events) = 2 /\ Len(events[2].arg.images) = 1

\* ------------------------------------------------------------------ C4
\* C4: under the step-decay policy get_lr returns the rate r = hparams.lr for
\* an epoch below 80, r/10 for 80..119 and r/100 from 120 on, for every iteration.
C4_StepValue ==
    (func = "get_lr" /\ In("svhn", hparams.dataset) /\ In("wrn", hparams.model_name)
        /\ iteration # NoIteration /\ Finished) =>
        /\ pc = "returned"
        /\ result = Float("value",
                <<IF curr_epoch < 80 THEN hparams.lr
                  ELSE IF curr_epoch < 120 THEN hparams.lr \div 10
                  ELSE hparams.lr \div 100>>)

\* ------------------------------------------------------------------ C5
\* C5: get_lr uses step_lr exactly when dataset contains "svhn" and model_name
\* contains "wrn", whatever else they contain; otherwise it returns
\* cosine_lr(lr, curr_epoch, iteration, floor(train_size / batch_size), num_epochs);
\* it warns exactly when dataset contains neither "cifar" nor "svhn" together
\* with a model_name containing "wrn" or "shake_shake".
C5_Dispatch ==
    (func = "get_lr" /\ pc = "returned") =>
        LET svhn == In("svhn", hparams.dataset)
            cifar == In("cifar", hparams.dataset)
            wrn == In("wrn", hparams.model_name)
            shake == In("shake_shake", hparams.model_name)
        IN /\ (result.by = "step_lr.get_lr") <=> (svhn /\ wrn)
           /\ ~(svhn /\ wrn) =>
                result = [kind |-> "float", by |-> "cosine_lr",
                          args |-> <<hparams.lr, curr_epoch, iteration,
                                     hparams.train_size \div hparams.batch_size,
                                     hparams.num_epochs>>]
           /\ warned <=> ~(cifar \/ (svhn /\ (wrn \/ shake)))

C5_Witness ==
    /\ func = "get_lr" /\ pc = "returned"
    /\ hparams.dataset = "cifar10_svhn" /\ hparams.model_name = "shake_shake_wrn"
    /\ result.by = "step_lr.get_lr" /\ ~warned

\* ------------------------------------------------------------------ C6
\* C6: a call of run_epoch_training that passes its assertion and is not failed
\* by the engine makes exactly floor(train_size / batch_size) passes, each with one
\* next_batch(curr_epoch), one load and one update; what it returns is
\* correct/count over those passes, which is 1 when every prediction agrees.
C6_EpochOfSteps ==
    (InTrain /\ Finished /\ engine_errors = 0 /\ site # "116") =>
        /\ Count("next_batch") = Steps
        /\ Count("load") = Steps
        /\ Runs(Update) = Steps
        /\ range_i = Steps
        /\ global_step = entry_step + Steps
        /\ \A k \in 1..Len(events) :
                events[k].op = "next_batch" => events[k].arg.epoch = curr_epoch
        /\ pc = "returned" =>
                /\ result = Float("div", <<hits, seen>>)
                /\ seen = Steps * hparams.batch_size
                /\ (hits = seen => IsOne(result))

C6_Witness ==
    /\ InTrain /\ pc = "returned" /\ Steps = 2 /\ Runs(Update) = 2
    /\ step # 1 /\ hits = seen /\ IsOne(result)

\* ------------------------------------------------------------------ C7
\* C7 as stated: when the global step read at entry is no multiple of
\* steps_per_epoch the call fails with AssertionError, having made no engine call
\* but the read of global_step: no load, no next_batch, no update.
C7_AssertionStops ==
    (InTrain /\ site # "115" /\ ~IsMultiple(curr_step, Steps)) =>
        /\ pc = "raised" /\ err = "AssertionError" /\ site = "116"
        /\ events = <<Event("run", [fetches |-> ReadStep])>>
        /\ global_step = entry_step

\* C7 amended: such a call never returns and makes no load, no next_batch and no
\* update; with steps_per_epoch >= 1 it fails at once with the AssertionError of
\* line 116, with steps_per_epoch = 0 it fails with ZeroDivisionError instead.
C7_MisalignedStops ==
    (InTrain /\ site # "115" /\ ~IsMultiple(curr_step, Steps)) =>
        /\ pc # "returned"
        /\ Count("load") = 0 /\ Count("next_batch") = 0 /\ Runs(Update) = 0
        /\ Runs(ReadStep) = 1 /\ Count("run") = 1
        /\ global_step = entry_step
        /\ Steps >= 1 =>
                /\ pc = "raised" /\ err = "AssertionError" /\ site = "116"
                /\ events = <<Event("run", [fetches |-> ReadStep])>>
        /\ (Steps = 0 /\ pc = "raised") => err = "ZeroDivisionError"

C7_Witness ==
    /\ InTrain /\ pc = "raised" /\ err = "AssertionError" /\ site = "116"
    /\ curr_step = 1 /\ Steps = 2

\* ------------------------------------------------------------------ C8
\* C8: after the read of the global step and the rate of iteration 0, pass k
\* (0-based) of the loop is, in this order: get_lr with iteration k+1, the load
\* of that value into lr_rate_ph, next_batch(curr_epoch), the update; so the
\* iterations given to the schedule inside the loop are 1, 2, ... in order.
C8_PassOrder ==
    InTrain =>
        LET body == SubSeq(events, 3, Len(events)) IN
        /\ Len(events) >= 1 => IsRun(events[1], ReadStep)
        /\ Len(events) >= 2 =>
                events[2] = Event("get_lr",
                    [iteration |-> 0, lr |-> get_lr(curr_epoch, hparams, 0).lr])
        /\ \A q \in 1..Len(body) :
            LET k == (q - 1) \div 4
                r == (q - 1) % 4
            IN /\ k < Steps
               /\ r = 0 => body[q] = Event("get_lr",
                                [iteration |-> k + 1,
                                 lr |-> get_lr(curr_epoch, hparams, k + 1).lr])
               /\ r = 1 => body[q] = Event("load", [value |-> body[q - 1].arg.lr])
               /\ r = 2 => body[q] = Event("next_batch", [epoch |-> curr_epoch])
               /\ r = 3 => IsRun(body[q], Update)
        /\ Len(body) >= 2 =>
                lr_rate_ph = body[4 * ((Len(body) - 2) \div 4) + 2].arg.value

C8_Witness ==
    /\ InTrain /\ pc = "returned" /\ Steps = 2 /\ Len(events) = 10
    /\ events[7].arg.iteration = 2

\* ------------------------------------------------------------------ C9
\* C9: an exception of the engine ends the call at once: it is the call's
\* exception, nothing is returned and no statement runs after it; raised by the
\* update of pass k (0-based) it leaves k updates done, k+1 batches fetched and
\* k+1 rates loaded.
C9_EngineErrorPropagates ==
    engine_errors > 0 =>
        /\ engine_errors = 1
        /\ pc = "raised" /\ err = "EngineError" /\ result = None
        /\ (InTrain /\ site = "132") =>
                LET k == range_i - 1 IN
                /\ k >= 0 /\ k < Steps
                /\ Runs(Update) = k
                /\ global_step = entry_step + k
                /\ Count("next_batch") = k + 1
                /\ Count("load") = k + 1
        /\ InEval => (site = "61" /\ Len(events) = i /\ i < eval_batches)

C9_Witness ==
    /\ InTrain /\ pc = "raised" /\ err = "EngineError" /\ site = "132"
    /\ range_i = 2 /\ Runs(Update) = 1 /\ Count("next_batch") = 2

\* ------------------------------------------------------------------ C10
\* C10: with steps_per_epoch >= 1 and a global step that starts as a multiple
\* of it, the global step is a multiple of it after every sequence of calls that
\* all returned, and the entry assertion of a call made after such a sequence
\* does not fail; a call of run_epoch_training that returns has advanced the
\* global step by steps_per_epoch; eval_child_model runs only the predictions and
\* leaves the global step alone, without next_batch or load.
C10_Alignment ==
    /\ (Steps >= 1 /\ IsMultiple(step0, Steps)) =>
            /\ (all_completed /\ pc \in {"idle", "returned"}) =>
                    IsMultiple(global_step, Steps)
            /\ (InTrain /\ clean_entry) => ~(err = "AssertionError" /\ site = "116")
    /\ (InTrain /\ pc = "returned") => global_step = entry_step + Steps
    /\ InEval =>
            /\ global_step = entry_step
            /\ Count("load") = 0 /\ Count("next_batch") = 0
            /\ \A k \in 1..Len(events) : IsRun(events[k], Predict)

C10_Witness ==
    /\ InTrain /\ pc = "returned" /\ calls = 2 /\ all_completed
    /\ step0 = 0 /\ Steps = 2 /\ global_step = 4

====
